---- MODULE Spec2Model ----
(***************************************************************************)
(* The inbox session client TempMailApp of base_static/js/index/tempmail.js *)
(* as a state machine.  JavaScript runs one callback at a time, so every    *)
(* action is one callback run to its first await (or to its end): a timer   *)
(* firing, a DOM event, a user gesture, or the continuation of an async     *)
(* method when its fetch settles.  The server is an external collaborator:  *)
(* every response is a nondeterministic choice from a small set.            *)
(*                                                                         *)
(* Methods of the class are operators on a record s holding the fields of   *)
(* the object and of the page; an action applies them in the order of the   *)
(* code and commits the resulting record to the variables.                  *)
(***************************************************************************)
EXTENDS Integers, Sequences, FiniteSets, TLC

\* ---------------------------------------------------------------- bounds
MaxExpires == 26       \* largest expires_in the server issues
ShortExpires == 2      \* largest expires_in where the critical window is not at stake
MaxMsgs == 1           \* largest message list a poll returns
MaxInFlight == 2       \* refreshMessages invocations awaited at once
MaxResets == 2         \* reset/rename POSTs awaited at once
MaxRetryTimers == 1    \* backoff timeouts pending at once
MaxAlerts == 2         \* stopAlert closures pending at once
MaxUserLen == 1        \* longest text typed into the username field
MaxLinkTimers == 1     \* processLinks timeouts pending at once
MaxIntervals == 2      \* intervals of one kind running at once

\* ------------------------------------------------------ program constants
maxRetries == 5
CriticalWindow == 25
LastChanceWindow == 60
BackgroundMinRemaining == 10

\* ------------------------------------------------------------- variables
VARIABLES
    currentEmail,             \* this.currentEmail (NoEmail = null)
    emailDisplay,             \* elements.emailDisplay.value
    skeletonShown,            \* emailSkeleton visible, emailDisplay hidden
    hidden,                   \* document.hidden
    viewListHidden,           \* view-list has class 'hidden' (reading a message)
    viewContainers,           \* elements.viewList and elements.viewContent both found
    isLoadingMessage,
    detailReqs,               \* GET /api/messages/{id}/ awaited by viewMessage
    pollingInterval,          \* handle: "null", "live" or "cleared"
    backgroundPollingTimer,   \* handle: "null" or "live"
    sessionTimer,             \* handle: "null", "live" or "cleared"
    sessionSecondsRemaining,
    isRefreshing,
    isResetting,
    pollingLed,               \* polling LED lit
    polls,                    \* refreshMessages invocations suspended at an await
    initLoading,              \* init() suspended in loadEmail()
    resets,                   \* confirmResetEmail/saveEditModal suspended at the POST
    cooldowns,                \* pending 2 s cooldown timeouts of confirmResetEmail
    retryCount,
    retryTimers,              \* pending backoff timeouts
    lastMessageCount,
    emailList,                \* number of rows rendered in #email-list
    notificationInterval,     \* handle: "null", "live" or "cleared"
    isAlert,                  \* the isAlert of the interval notifyNewEmail set last
    stopAlerts,               \* stopAlert closures whose 10 s timeout is pending
    title,                    \* document.title
    unreadCount,
    intervals,                \* how many intervals of each kind are running
    currentMessageId,         \* 0 = null
    msgCorpo,                 \* what #msg-corpo holds: kind, markup, hooks, srcdoc
    attachmentsList,          \* the file names as written into #attachments-list
    linkTimers,               \* pending 100 ms processLinks timeouts
    linkModal,                \* #linkConfirmModal: open, url, warning
    navigations,              \* hrefs the main window was sent to
    downloadModal,            \* #downloadConfirmModal: open, and what onclick holds
    downloads,                \* download fetches awaiting their response
    consecFails,              \* history: failed polls since the last successful one
    ev                        \* history: what the last callback did

vars == << currentEmail, emailDisplay, skeletonShown, hidden, viewListHidden,
           viewContainers,
           isLoadingMessage, detailReqs, pollingInterval, backgroundPollingTimer,
           sessionTimer, sessionSecondsRemaining, isRefreshing, isResetting,
           pollingLed, polls, initLoading, resets, cooldowns, retryCount,
           retryTimers, lastMessageCount, emailList, notificationInterval,
           isAlert, stopAlerts, title, unreadCount, intervals, currentMessageId,
           msgCorpo,
           attachmentsList, linkTimers, linkModal, navigations, downloadModal,
           downloads, consecFails, ev >>

\* --------------------------------------------------------------- strings
\* A string is a sequence of one-character strings.
NoEmail == << >>
Domain == << "d" >>
ServerEmails == { << "a" >> \o << "@" >> \o Domain,
                  << "a", "a" >> \o << "@" >> \o Domain }

ExpiresChoices == { 0, 1, ShortExpires, MaxExpires }

\* ------------------------------------------------- the record of the state
Cur == [ currentEmail |-> currentEmail, emailDisplay |-> emailDisplay,
         skeletonShown |-> skeletonShown, hidden |-> hidden,
         viewListHidden |-> viewListHidden, viewContainers |-> viewContainers,
         isLoadingMessage |-> isLoadingMessage,
         detailReqs |-> detailReqs, pollingInterval |-> pollingInterval,
         backgroundPollingTimer |-> backgroundPollingTimer,
         sessionTimer |-> sessionTimer,
         sessionSecondsRemaining |-> sessionSecondsRemaining,
         isRefreshing |-> isRefreshing, isResetting |-> isResetting,
         pollingLed |-> pollingLed, polls |-> polls, initLoading |-> initLoading,
         resets |-> resets, cooldowns |-> cooldowns, retryCount |-> retryCount,
         retryTimers |-> retryTimers, lastMessageCount |-> lastMessageCount,
         emailList |-> emailList, notificationInterval |-> notificationInterval,
         isAlert |-> isAlert, stopAlerts |-> stopAlerts, title |-> title,
         unreadCount |-> unreadCount, intervals |-> intervals,
         currentMessageId |-> currentMessageId, msgCorpo |-> msgCorpo,
         attachmentsList |-> attachmentsList, linkTimers |-> linkTimers,
         linkModal |-> linkModal, navigations |-> navigations,
         downloadModal |-> downloadModal, downloads |-> downloads,
         consecFails |-> consecFails,
         ev |-> ev ]

\* op: the callback; called: it called refreshMessages; issued: that call sent
\* GET /api/messages/; failed: a poll took the backoff path; retryDelay: seconds
\* to the retry it scheduled (0: none); gone: a poll took the session-not-found
\* branch; notified: notifyNewEmail ran; toast: the kind of toast shown;
\* link: the link a click was on (NoLink: no link was clicked); ignored:
\* viewMessage returned at its loading test.
\* document.title: the title of the page, the unread count put before it,
\* or one of the two strings of the blink
OriginalTitle == [ kind |-> "original", n |-> 0 ]
CountTitle(k) == [ kind |-> "count", n |-> k ]
NovoTitle == [ kind |-> "novo", n |-> 0 ]
VejaTitle == [ kind |-> "veja", n |-> 0 ]

NoLink == [ href |-> "", text |-> "", where |-> "none" ]
NoEv(op) == [ op |-> op, called |-> FALSE, issued |-> FALSE, failed |-> FALSE,
              retryDelay |-> 0, gone |-> FALSE, notified |-> FALSE,
              toast |-> "none", link |-> NoLink, ignored |-> FALSE ]

\* #msg-corpo before any message is opened
EmptyBody == [ kind |-> "empty", markup |-> << >>, hooks |-> { }, srcdoc |-> << >>,
               sandboxed |-> FALSE ]

\* confirmDownloadBtn.onclick before showDownloadModal has set it
NoDownload == [ type |-> "none", messageId |-> 0, attachmentId |-> 0,
                filename |-> << >> ]

\* The record at the start of callback op.
Begin(op) == [ Cur EXCEPT !.ev = NoEv(op) ]

Commit(s) ==
    /\ currentEmail' = s.currentEmail
    /\ emailDisplay' = s.emailDisplay
    /\ skeletonShown' = s.skeletonShown
    /\ hidden' = s.hidden
    /\ viewListHidden' = s.viewListHidden
    /\ viewContainers' = s.viewContainers
    /\ isLoadingMessage' = s.isLoadingMessage
    /\ detailReqs' = s.detailReqs
    /\ pollingInterval' = s.pollingInterval
    /\ backgroundPollingTimer' = s.backgroundPollingTimer
    /\ sessionTimer' = s.sessionTimer
    /\ sessionSecondsRemaining' = s.sessionSecondsRemaining
    /\ isRefreshing' = s.isRefreshing
    /\ isResetting' = s.isResetting
    /\ pollingLed' = s.pollingLed
    /\ polls' = s.polls
    /\ initLoading' = s.initLoading
    /\ resets' = s.resets
    /\ cooldowns' = s.cooldowns
    /\ retryCount' = s.retryCount
    /\ retryTimers' = s.retryTimers
    /\ lastMessageCount' = s.lastMessageCount
    /\ emailList' = s.emailList
    /\ notificationInterval' = s.notificationInterval
    /\ isAlert' = s.isAlert
    /\ stopAlerts' = s.stopAlerts
    /\ title' = s.title
    /\ unreadCount' = s.unreadCount
    /\ intervals' = s.intervals
    /\ currentMessageId' = s.currentMessageId
    /\ msgCorpo' = s.msgCorpo
    /\ attachmentsList' = s.attachmentsList
    /\ linkTimers' = s.linkTimers
    /\ linkModal' = s.linkModal
    /\ navigations' = s.navigations
    /\ downloadModal' = s.downloadModal
    /\ downloads' = s.downloads
    /\ consecFails' = s.consecFails
    /\ ev' = s.ev

\* The caps of the model: what a callback leaves pending stays within bounds.
WithinBounds(s) ==
    /\ Len(s.polls) <= MaxInFlight
    /\ Len(s.resets) <= MaxResets
    /\ s.retryTimers <= MaxRetryTimers
    /\ Len(s.stopAlerts) <= MaxAlerts
    /\ \A k \in DOMAIN s.intervals : s.intervals[k] <= MaxIntervals
    /\ s.detailReqs <= MaxInFlight
    /\ s.linkTimers <= MaxLinkTimers
    /\ Len(s.downloads) <= MaxInFlight

RemoveAt(seq, i) == SubSeq(seq, 1, i - 1) \o SubSeq(seq, i + 1, Len(seq))

\* ------------------------------------------------------ server responses
\* What _apiCall('/api/email/') resolves to, as loadEmail, confirmResetEmail
\* and saveEditModal read it: ok is (success && data && data.success).
EmailOk(emails, expires) ==
    { [ ok |-> TRUE, email |-> e, hasExpires |-> TRUE, expires |-> x, err |-> FALSE ] :
          e \in emails, x \in expires }

\* a failed call, with or without data.error
EmailFail ==
    { [ ok |-> FALSE, email |-> NoEmail, hasExpires |-> FALSE, expires |-> 0, err |-> b ] :
          b \in BOOLEAN }

EmailResponses ==
    EmailOk(ServerEmails, ExpiresChoices) \cup EmailFail
    \cup { [ ok |-> TRUE, email |-> e, hasExpires |-> FALSE, expires |-> 0,
              err |-> FALSE ] : e \in ServerEmails }

\* What fetch('/api/messages/') and response.json() give refreshMessages:
\* throws (fetch rejected or the body is not JSON), else data.success,
\* data.error === 'Sessão não encontrada', response.status, data.messages.length;
\* bad: data.messages has an entry renderMessages cannot read (it throws);
\* unread: the number of entries of data.messages with is_read false.
MsgThrows ==
    { [ throws |-> TRUE, success |-> FALSE, sessErr |-> FALSE, status |-> 200, n |-> 0,
        bad |-> FALSE, unread |-> 0 ] }

MsgSuccess(counts) ==
    { [ throws |-> FALSE, success |-> TRUE, sessErr |-> FALSE, status |-> 200, n |-> k,
        bad |-> FALSE, unread |-> k ] : k \in counts }

\* success with a list of k messages, all of them read
MsgSuccessRead(counts) ==
    { [ throws |-> FALSE, success |-> TRUE, sessErr |-> FALSE, status |-> 200, n |-> k,
        bad |-> FALSE, unread |-> 0 ] : k \in counts }

\* success with a list of k entries, one of them null
MsgBadList(counts) ==
    { [ throws |-> FALSE, success |-> TRUE, sessErr |-> FALSE, status |-> 200, n |-> k,
        bad |-> TRUE, unread |-> 0 ] : k \in counts }

MsgFail(statuses, sessErrs) ==
    { [ throws |-> FALSE, success |-> FALSE, sessErr |-> e, status |-> st, n |-> 0,
        bad |-> FALSE, unread |-> 0 ] : e \in sessErrs, st \in statuses }

MsgResponses ==
    MsgThrows \cup MsgSuccess(0..MaxMsgs) \cup MsgSuccessRead(1..MaxMsgs)
    \cup MsgBadList(1..MaxMsgs)
    \cup MsgFail({ 200, 400, 403, 500 }, BOOLEAN)

\* ----------------------------------------------------------------- timers
\* A handle is "null", "live" (the interval it names is running) or
\* "cleared" (it names an interval that was stopped).
\* this[handle] = setInterval(...): one more interval of that kind runs
setInterval(s, handle, kind) ==
    [ s EXCEPT ![handle] = "live", !.intervals[kind] = @ + 1 ]

\* clearInterval(this[handle]): stops the interval the handle names, if it
\* is running
clearInterval(s, handle, kind) ==
    IF s[handle] = "live"
    THEN [ s EXCEPT ![handle] = "cleared", !.intervals[kind] = @ - 1 ]
    ELSE s

stopBackgroundPolling(s) ==
    IF s.backgroundPollingTimer # "null"
    THEN [ clearInterval(s, "backgroundPollingTimer", "background")
             EXCEPT !.backgroundPollingTimer = "null" ]
    ELSE s

stopPolling(s) ==
    LET s1 == IF s.pollingInterval # "null"
              THEN clearInterval(s, "pollingInterval", "poll")
              ELSE s
    IN  stopBackgroundPolling(s1)

\* a startPolling that sets no interval
startPolling_Never(s) == s

\* a startPolling that does not stop the interval already set
startPolling_NoStop(s) ==
    IF s.sessionSecondsRemaining <= 0
    THEN s
    ELSE setInterval(s, "pollingInterval", "poll")

startPolling(s) ==
    IF s.sessionSecondsRemaining <= 0
    THEN s
    ELSE setInterval(stopPolling(s), "pollingInterval", "poll")

startBackgroundPolling(s) ==
    LET s1 == stopBackgroundPolling(s)
    IN  IF s1.sessionSecondsRemaining <= 0
        THEN s1
        ELSE setInterval(s1, "backgroundPollingTimer", "background")

startSessionCountdown(s, seconds) ==
    LET s1 == IF s.sessionTimer # "null"
              THEN clearInterval(s, "sessionTimer", "countdown")
              ELSE s
    IN  setInterval([ s1 EXCEPT !.sessionSecondsRemaining = seconds ],
                    "sessionTimer", "countdown")

showSkeleton(s) == [ s EXCEPT !.skeletonShown = TRUE ]
hideSkeleton(s) == [ s EXCEPT !.skeletonShown = FALSE ]

\* ---------------------------------------------------------------- backoff
Pow2(k) == IF k = 0 THEN 1 ELSE IF k = 1 THEN 2 ELSE IF k = 2 THEN 4
           ELSE IF k = 3 THEN 8 ELSE IF k = 4 THEN 16 ELSE IF k = 5 THEN 32
           ELSE 64

\* a backoff that doubles from one second instead of two
BackoffDelay_FromOne(rc) == Pow2(rc - 1)

\* Math.pow(2, this.retryCount) * 1000 ms, in seconds
BackoffDelay(rc) == Pow2(rc)

\* a backoff that counts on past maxRetries
scheduleRetryWithBackoff_NoCap(s) ==
    [ s EXCEPT !.retryCount = @ + 1,
               !.retryTimers = @ + 1,
               !.ev.retryDelay = BackoffDelay(s.retryCount + 1) ]

scheduleRetryWithBackoff(s) ==
    IF s.retryCount >= maxRetries
    THEN [ s EXCEPT !.retryCount = 0 ]
    ELSE [ s EXCEPT !.retryCount = @ + 1,
                    !.retryTimers = @ + 1,
                    !.ev.retryDelay = BackoffDelay(s.retryCount + 1) ]

\* ----------------------------------------------------------- notification
updateTabTitle(s) ==
    IF s.unreadCount > 0 /\ s.hidden
    THEN [ s EXCEPT !.title = CountTitle(s.unreadCount) ]
    ELSE [ s EXCEPT !.title = OriginalTitle ]

\* the interval of the blink, its isAlert starting false; stopAlert, keeping
\* the title of this moment, is set on window 'focus' and on a 10 s timeout
notifyNewEmail(s) ==
    LET s1 == IF s.notificationInterval # "null"
              THEN clearInterval(s, "notificationInterval", "blink")
              ELSE s
    IN  [ setInterval(s1, "notificationInterval", "blink") EXCEPT
            !.isAlert = FALSE,
            !.stopAlerts = Append(@, [ oldTitle |-> s.title, listening |-> TRUE ]),
            !.ev.notified = TRUE ]

\* the callback of the blink interval
blinkTick(s) ==
    [ s EXCEPT !.title = IF s.isAlert THEN NovoTitle ELSE VejaTitle,
               !.isAlert = ~@ ]

\* a stopAlert that puts the title back and leaves the interval running
stopAlert_TitleOnly(s, oldTitle) == [ s EXCEPT !.title = oldTitle ]

\* stopAlert: clearInterval(this.notificationInterval), whichever it is now;
\* document.title = oldTitle
stopAlert(s, oldTitle) ==
    [ clearInterval(s, "notificationInterval", "blink") EXCEPT !.title = oldTitle ]

\* window 'focus': the registered stopAlert listeners run in the order they
\* were added, and each removes itself
RECURSIVE focusListeners(_, _)
focusListeners(s, i) ==
    IF i > Len(s.stopAlerts) THEN s
    ELSE IF s.stopAlerts[i].listening
         THEN focusListeners(
                  stopAlert([ s EXCEPT !.stopAlerts[i].listening = FALSE ],
                            s.stopAlerts[i].oldTitle), i + 1)
         ELSE focusListeners(s, i + 1)

\* the 10 s timeout set first among the pending ones fires
alertTimeout(s) ==
    stopAlert([ s EXCEPT !.stopAlerts = Tail(@) ], Head(s.stopAlerts).oldTitle)

\* ---------------------------------------------------------------- polling
IsCriticalTime(s) ==
    s.sessionSecondsRemaining > 0 /\ s.sessionSecondsRemaining <= CriticalWindow

\* a poll that goes on while a message is being read
RefreshIgnored_WhileReading(s) == s.isRefreshing \/ s.isResetting

\* refreshMessages without its isRefreshing test
RefreshIgnored_NoMutex(s) == s.isResetting \/ s.viewListHidden

\* if (this.isRefreshing || this.isResetting || isReadingMessage) return;
RefreshIgnored(s) == s.isRefreshing \/ s.isResetting \/ s.viewListHidden

\* a hidden tab that never polls, critical window or not
HiddenSkip_Always(s) == s.hidden

\* if (document.hidden && !isCriticalTime) return;
HiddenSkip(s) == s.hidden /\ ~IsCriticalTime(s)

\* the expiry test dropped: an expired session still polls
SessionOver_Never(s) == FALSE

\* if (this.sessionSecondsRemaining <= 0)
SessionOver(s) == s.sessionSecondsRemaining <= 0

\* refreshMessages up to its first await.
refreshMessages(s) ==
    LET c == [ s EXCEPT !.ev.called = TRUE ]
    IN  IF RefreshIgnored(c) THEN c
        ELSE IF HiddenSkip(c) THEN c
        ELSE IF SessionOver(c) THEN stopPolling(c)
        ELSE [ c EXCEPT !.isRefreshing = TRUE,
                        !.pollingLed = TRUE,
                        !.ev.issued = TRUE,
                        !.polls = Append(@, [ crit |-> IsCriticalTime(c),
                                              stage |-> "fetch" ]) ]

renderMessages(s, n, unread) ==
    [ updateTabTitle([ s EXCEPT !.unreadCount = unread ]) EXCEPT !.emailList = n ]

\* messages.filter(msg => !msg.is_read) throws on a null entry, before
\* renderMessages has written anything
RenderThrows(s, r) == r.bad /\ r.n > s.lastMessageCount

clearMessageList(s) == [ s EXCEPT !.emailList = 0 ]

\* a tail that turns the LED off and keeps isRefreshing
RefreshFinish_KeepsFlag(s) == [ s EXCEPT !.pollingLed = FALSE ]

\* The tail of refreshMessages: isRefreshing released, LED off.
RefreshFinish(s) == [ s EXCEPT !.isRefreshing = FALSE, !.pollingLed = FALSE ]

\* status >= 500 or an exception: backoff, then the early return.
RefreshFailed(s) ==
    LET b == scheduleRetryWithBackoff(s)
    IN  RefreshFinish([ b EXCEPT !.ev.failed = TRUE,
                                 !.consecFails = IF @ > maxRetries + 1 THEN @ ELSE @ + 1 ])

\* a notification for every growth seen in a hidden tab
ShouldNotify_HiddenOnly(s, crit) == s.hidden

\* if (document.hidden && isCriticalTime)
ShouldNotify(s, crit) == s.hidden /\ crit

\* The data.success branch of refreshMessages for a list of n messages,
\* crit being isCriticalTime as computed when the poll was called.
RefreshSuccess(s, crit, n, unread) ==
    LET grown == n > s.lastMessageCount
        r1 == IF grown THEN renderMessages(s, n, unread) ELSE s
        r2 == IF grown /\ ShouldNotify(r1, crit) THEN notifyNewEmail(r1) ELSE r1
        r3 == IF grown THEN [ r2 EXCEPT !.lastMessageCount = n ]
              ELSE IF n = 0 THEN [ r2 EXCEPT !.lastMessageCount = 0 ]
              ELSE r2
    IN  RefreshFinish([ r3 EXCEPT !.retryCount = 0, !.consecFails = 0 ])

\* data.error === 'Sessão não encontrada' || response.status === 400
IsSessionGone(r) == r.sessErr \/ r.status = 400

\* loadEmail from its await on: the response r of GET /api/email/.
loadEmailDone(s, r) ==
    IF r.ok
    THEN LET s1 == hideSkeleton([ s EXCEPT !.currentEmail = r.email,
                                           !.emailDisplay = r.email ])
         IN  IF r.hasExpires THEN startSessionCountdown(s1, r.expires) ELSE s1
    ELSE LET s1 == hideSkeleton(s)
         IN  IF r.err THEN [ s1 EXCEPT !.ev.toast = "error" ] ELSE s1

\* a recovery that starts even during a reset
RecoverBlocked_Never(s) == FALSE

\* if (!this.isResetting) await this.loadEmail();
RecoverBlocked(s) == s.isResetting

\* refreshMessages from the fetch on, for the invocation at index i of polls.
refreshDone(s, i, r) ==
    LET p == s.polls[i]
        done == [ s EXCEPT !.polls = RemoveAt(@, i) ]
    IN  IF r.throws THEN RefreshFailed(done)
        ELSE IF r.success /\ RenderThrows(done, r) THEN RefreshFailed(done)
        ELSE IF r.success THEN RefreshSuccess(done, p.crit, r.n, r.unread)
        ELSE IF IsSessionGone(r)
             THEN IF ~RecoverBlocked(s)
                  THEN showSkeleton([ s EXCEPT !.polls[i].stage = "recover",
                                               !.ev.gone = TRUE ])
                  ELSE RefreshFinish([ done EXCEPT !.ev.gone = TRUE ])
        ELSE IF r.status >= 500 THEN RefreshFailed(done)
        ELSE RefreshFinish(done)

\* refreshMessages resumed after its nested loadEmail.
recoverDone(s, i, r) ==
    RefreshFinish(loadEmailDone([ s EXCEPT !.polls = RemoveAt(@, i) ], r))

backToList(s) ==
    LET s1 == [ s EXCEPT !.viewListHidden = FALSE ]
    IN  IF s1.pollingInterval = "null" /\ ~s1.isResetting
           /\ s1.sessionSecondsRemaining > 0
        THEN startPolling(s1)
        ELSE s1

\* ------------------------------------------------------- reset and rename
\* the isResetting test dropped
ResetBusy_Never(s) == FALSE

\* if (this.isResetting) return;
ResetBusy(s) == s.isResetting

\* confirmResetEmail up to its await.
confirmResetEmail(s) ==
    IF ResetBusy(s) THEN s
    ELSE LET s1 == stopPolling([ s EXCEPT !.isResetting = TRUE ])
             s2 == backToList([ s1 EXCEPT !.emailDisplay = NoEmail ])
         IN  [ showSkeleton(s2) EXCEPT !.resets = Append(@, "reset") ]

\* confirmResetEmail from the POST's response on.
confirmResetDone(s, r) ==
    IF r.ok
    THEN LET s1 == clearMessageList([ s EXCEPT !.currentEmail = r.email,
                                               !.emailDisplay = r.email,
                                               !.ev.toast = "success" ])
             s2 == IF r.hasExpires THEN startSessionCountdown(s1, r.expires) ELSE s1
         IN  [ hideSkeleton(s2) EXCEPT !.cooldowns = @ + 1 ]
    ELSE LET s1 == hideSkeleton([ s EXCEPT !.ev.toast = "error" ])
         IN  startPolling([ s1 EXCEPT !.isResetting = FALSE ])

\* The 2 s cooldown timeout of a successful reset.
cooldownDone(s) == startPolling([ s EXCEPT !.isResetting = FALSE ])

\* --- the username typed into the edit modal
Chars == { "a", ".", "@", " ", "a'", "!" }     \* "a'" is an accented a
ValidChars == { "a", ".", "_", "-", "0", "A" }  \* members of [a-zA-Z0-9._-]
Typed == UNION { [ 1..n -> Chars ] : n \in 0..MaxUserLen }

RECURSIVE TrimStart(_)
TrimStart(u) == IF u # << >> /\ Head(u) = " " THEN TrimStart(Tail(u)) ELSE u

RECURSIVE TrimEnd(_)
TrimEnd(u) ==
    IF u # << >> /\ u[Len(u)] = " " THEN TrimEnd(SubSeq(u, 1, Len(u) - 1)) ELSE u

Trim(u) == TrimEnd(TrimStart(u))

Includes(u, c) == \E i \in 1..Len(u) : u[i] = c

\* username.split('@')[0]
RECURSIVE BeforeAt(_)
BeforeAt(u) ==
    IF u = << >> \/ Head(u) = "@" THEN << >> ELSE << Head(u) >> \o BeforeAt(Tail(u))

\* normalize('NFKD'): an accented letter becomes the letter and a combining mark
RECURSIVE NFKD(_)
NFKD(u) ==
    IF u = << >> THEN << >>
    ELSE (IF Head(u) = "a'" THEN << "a", "'" >> ELSE << Head(u) >>) \o NFKD(Tail(u))

\* replace(/[\u0300-\u036f]/g, ''): the combining marks are dropped
Normalize(u) == SelectSeq(NFKD(u), LAMBDA c : c # "'")

\* a pattern that lets every character through
ValidPattern_Any(u) == u # << >>

\* /^[a-zA-Z0-9._-]+$/.test(username)
ValidPattern(u) == u # << >> /\ \A i \in 1..Len(u) : u[i] \in ValidChars

\* domainLabel.replace('@', '').trim()
RECURSIVE RemoveFirst(_, _)
RemoveFirst(u, c) ==
    IF u = << >> THEN << >>
    ELSE IF Head(u) = c THEN Tail(u)
    ELSE << Head(u) >> \o RemoveFirst(Tail(u), c)

FullEmail(username) == username \o << "@" >> \o Trim(RemoveFirst(<< "@" >> \o Domain, "@"))

\* The validation of saveEditModal: the verdict on the typed text.
Validate(typed, current) ==
    LET u0 == Trim(typed)
        u1 == IF Includes(u0, "@") THEN BeforeAt(u0) ELSE u0
        u2 == Normalize(u1)
    IN  IF u0 = << >> THEN "empty"
        ELSE IF u1 = << >> THEN "emptyLocal"
        ELSE IF u2 # << >> /\ (Head(u2) = "." \/ u2[Len(u2)] = ".") THEN "dot"
        ELSE IF ~ValidPattern(u2) THEN "invalid"
        ELSE IF FullEmail(u2) = current THEN "same"
        ELSE "accept"

\* saveEditModal up to its await.
saveEditModal(s, typed) ==
    LET v == Validate(typed, s.currentEmail)
    IN  IF v \in { "empty", "emptyLocal" } THEN [ s EXCEPT !.ev.toast = "warning" ]
        ELSE IF v \in { "dot", "invalid" } THEN [ s EXCEPT !.ev.toast = "error" ]
        ELSE IF v = "same" THEN [ s EXCEPT !.ev.toast = "info" ]
        ELSE IF ResetBusy(s) THEN s
        ELSE LET s1 == stopPolling([ s EXCEPT !.isResetting = TRUE ])
             IN  [ showSkeleton(s1) EXCEPT !.resets = Append(@, "rename") ]

\* saveEditModal from the POST's response on, its finally block included.
saveEditDone(s, r) ==
    LET s1 == IF r.ok
              THEN LET a == clearMessageList([ s EXCEPT !.currentEmail = r.email,
                                                        !.emailDisplay = r.email,
                                                        !.ev.toast = "success" ])
                       b == IF r.hasExpires THEN startSessionCountdown(a, r.expires)
                            ELSE a
                   IN  refreshMessages(b)
              ELSE [ s EXCEPT !.ev.toast = "error" ]
    IN  startPolling(hideSkeleton([ s1 EXCEPT !.isResetting = FALSE ]))

\* ------------------------------------------------------ message content
\* Text that comes from a message is a sequence of tokens: a harmless
\* character, a raw '<' that starts active markup, a URL; markup adds the
\* entity &lt; and the anchor element.
Tok(k, v) == [ k |-> k, v |-> v ]
Plain == << Tok("chr", "a") >>
Untrusted == { Plain, << Tok("lt", "<") >> }
TextUrls == { "https://a.com/" }
TextBodies == { << >> } \cup Untrusted \cup { << Tok("url", u) >> : u \in TextUrls }

\* div.textContent = text; return div.innerHTML
escapeHtml(text) ==
    IF text = << >> THEN << >>
    ELSE [ i \in 1..Len(text) |->
             IF text[i].k = "lt" THEN Tok("ent", "&lt;") ELSE text[i] ]

\* every URL of the text becomes <a href="url" target="_blank">url</a>
linkify(text) ==
    IF text = << >> THEN << >>
    ELSE [ i \in 1..Len(text) |->
             IF text[i].k = "url" THEN Tok("a", text[i].v) ELSE text[i] ]

\* what renderMessages puts into a row's innerHTML for a sender or subject
rowMarkup(text) == escapeHtml(text)

\* DOMPurify.sanitize: active markup is dropped, anchors and text stay
Sanitize(html) == SelectSeq(html, LAMBDA tok : tok.k # "lt")

\* the href of every <a> element of a markup
Anchors(markup) == { markup[i].v : i \in { j \in 1..Len(markup) : markup[j].k = "a" } }

\* ------------------------------------------------------------------ links
\* The hrefs and link texts a message can carry.
Hrefs == { "https://a.com/", "https://x.a.com/", "https://b.com/", "#top",
           "javascript:x", "", "nourl" }
LinkTexts == { "click", "a.com", "b.com", "https://b.com/", "", "A.COM", "x.a.com",
               "a/b" }

StartsWithHash(h) == h = "#top"
\* new URL(href) does not throw
UrlParses(h) == h \in { "https://a.com/", "https://x.a.com/", "https://b.com/",
                        "javascript:x" }
Hostname(h) ==
    CASE h = "https://a.com/" -> "a.com"
      [] h = "https://x.a.com/" -> "x.a.com"
      [] h = "https://b.com/" -> "b.com"
      [] OTHER -> ""
\* text.includes('.') || text.includes('/')
HasDotOrSlash(x) == x \in { "a.com", "b.com", "https://a.com/", "https://x.a.com/",
                            "https://b.com/", "A.COM", "x.a.com", "a/b" }
\* the first match of /([a-z0-9|-]+\.)+[a-z]{2,}/i in the text ("": none)
DomainIn(x) ==
    CASE x \in { "a.com", "https://a.com/" } -> "a.com"
      [] x \in { "b.com", "https://b.com/" } -> "b.com"
      [] x \in { "x.a.com", "https://x.a.com/" } -> "x.a.com"
      [] x = "A.COM" -> "A.COM"
      [] OTHER -> ""
\* x.toLowerCase()
ToLowerCase(x) == IF x = "A.COM" THEN "a.com" ELSE x
StartsWithHttp(x) == x \in { "https://a.com/", "https://x.a.com/", "https://b.com/" }
\* href.startsWith(text.substring(0, 15))
HrefStartsWith(h, x) == x = "" \/ h = x
\* actualDomain.endsWith('.' + textDomain)
EndsWithDot(host, dom) == host = "x.a.com" /\ dom = "a.com"

\* a comparison of the domains as written, upper case and lower case apart
detectHiddenUrl_CaseSensitive(text, href) ==
    IF ~HasDotOrSlash(text) THEN FALSE
    ELSE IF UrlParses(href)
         THEN /\ DomainIn(text) # ""
              /\ DomainIn(text) # Hostname(href)
              /\ ~EndsWithDot(Hostname(href), DomainIn(text))
         ELSE StartsWithHttp(text) /\ ~HrefStartsWith(href, text)

detectHiddenUrl(text, href) ==
    IF ~HasDotOrSlash(text) THEN FALSE
    ELSE IF UrlParses(href)
         THEN /\ DomainIn(text) # ""
              /\ ToLowerCase(DomainIn(text)) # ToLowerCase(Hostname(href))
              /\ ~EndsWithDot(ToLowerCase(Hostname(href)), ToLowerCase(DomainIn(text)))
         ELSE StartsWithHttp(text) /\ ~HrefStartsWith(href, text)

\* a modal that never shows the warning
showLinkConfirmModal_NoWarning(s, url, isHidden) ==
    [ s EXCEPT !.linkModal = [ open |-> TRUE, url |-> url, warning |-> FALSE ] ]

showLinkConfirmModal(s, url, isHidden) ==
    [ s EXCEPT !.linkModal = [ open |-> TRUE, url |-> url, warning |-> isHidden ] ]

\* every <a> of #msg-corpo with an href that is not a fragment gets a click
\* listener; the text of an anchor made by linkify is its URL.
processLinks(s) ==
    [ s EXCEPT !.msgCorpo.hooks =
        @ \cup { [ href |-> h, warn |-> detectHiddenUrl(h, h) ] :
                   h \in { a \in Anchors(s.msgCorpo.markup) :
                             a # "" /\ ~StartsWithHash(a) } } ]

\* a click on the anchor href of #msg-corpo: its listeners, else the
\* default action of the browser
clickAnchor(s, href) ==
    LET mine == { h \in s.msgCorpo.hooks : h.href = href }
        c == [ s EXCEPT !.ev.link = [ href |-> href, text |-> href, where |-> "body" ] ]
    IN  IF mine = { } THEN [ c EXCEPT !.navigations = @ \cup { href } ]
        ELSE showLinkConfirmModal(c, href, \E h \in mine : h.warn)

\* the 'message' listener of the main window for data = { type, href, text }
messageListener(s, type, href, text) ==
    IF type = "link-click" /\ href # ""
    THEN showLinkConfirmModal(s, href,
                              detectHiddenUrl(IF text = "" THEN href ELSE text, href))
    ELSE s

\* the click listener of the iframe document: the link is posted to the
\* parent unless its href is empty, a fragment or a javascript: URL
iframeClick(s, href, text) ==
    IF href # "" /\ ~StartsWithHash(href) /\ href # "javascript:x"
    THEN messageListener([ s EXCEPT !.ev.link = [ href |-> href, text |-> text,
                                                   where |-> "iframe" ] ],
                         "link-click", href, text)
    ELSE s

\* the user follows #confirmLinkBtn, whose href showLinkConfirmModal set
confirmLink(s) ==
    [ s EXCEPT !.navigations = @ \cup { s.linkModal.url }, !.linkModal.open = FALSE ]

\* -------------------------------------------------------------- downloads
showDownloadModal(s, options) ==
    [ s EXCEPT !.downloadModal = [ open |-> TRUE, onclick |-> options ] ]

downloadAttachment(s, messageId, attachmentId, filename) ==
    IF messageId = 0 \/ attachmentId = 0 THEN s
    ELSE [ s EXCEPT !.ev.toast = "info",
                    !.downloads = Append(@, [ type |-> "attachment",
                                              messageId |-> messageId,
                                              attachmentId |-> attachmentId ]) ]

executeDownloadMessage(s) ==
    [ s EXCEPT !.ev.toast = "info",
               !.downloads = Append(@, [ type |-> "message",
                                         messageId |-> s.currentMessageId,
                                         attachmentId |-> 0 ]) ]

downloadMessage(s) ==
    IF s.currentMessageId = 0 THEN [ s EXCEPT !.ev.toast = "warning" ]
    ELSE showDownloadModal(s, [ type |-> "message", messageId |-> 0,
                                attachmentId |-> 0, filename |-> Plain ])

\* confirmDownloadBtn.onclick as showDownloadModal set it
confirmDownload(s) ==
    LET o == s.downloadModal.onclick
        c == [ s EXCEPT !.downloadModal.open = FALSE ]
    IN  IF o.type = "attachment"
        THEN downloadAttachment(c, o.messageId, o.attachmentId, o.filename)
        ELSE IF o.type = "message" THEN executeDownloadMessage(c)
        ELSE c

\* the download fetch settles
downloadDone(s, i, ok) ==
    [ s EXCEPT !.downloads = RemoveAt(@, i),
               !.ev.toast = IF ok THEN "success" ELSE "error" ]

\* ------------------------------------------------------- message detail
\* What GET /api/messages/{id}/ gives viewMessage: kind is "ok"
\* (data.success), "fail" or "throws"; html (<< >>: none), text and the file
\* names of the attachments are the sender's.
DetailOk(htmls, texts, files) ==
    { [ kind |-> "ok", html |-> h, text |-> x, attachments |-> a ] :
          h \in htmls, x \in texts, a \in files }
DetailFail ==
    { [ kind |-> k, html |-> << >>, text |-> << >>, attachments |-> << >> ] :
          k \in { "fail", "throws" } }

\* the loading test dropped
LoadingBusy_Never(s) == FALSE

\* if (this.isLoadingMessage) return;
LoadingBusy(s) == s.isLoadingMessage

\* viewMessage up to its await.
viewMessage(s) ==
    IF LoadingBusy(s) THEN [ s EXCEPT !.ev.ignored = TRUE ]
    ELSE [ s EXCEPT !.isLoadingMessage = TRUE, !.currentMessageId = 1,
                    !.detailReqs = @ + 1 ]

\* the HTML body goes, sanitized, into the srcdoc of a sandboxed iframe
renderEmailInIframe(s, html) ==
    [ s EXCEPT !.msgCorpo = [ kind |-> "iframe", markup |-> << >>, hooks |-> { },
                              srcdoc |-> Sanitize(html), sandboxed |-> TRUE ],
               !.linkTimers = @ + 1 ]

\* msgCorpo.innerHTML = DOMPurify.sanitize(linkify(escapeHtml(text)))
renderTextBody(s, text) ==
    processLinks([ s EXCEPT !.msgCorpo =
        [ kind |-> "text", markup |-> Sanitize(linkify(escapeHtml(text))),
          hooks |-> { }, srcdoc |-> << >>, sandboxed |-> FALSE ] ])

\* item.innerHTML = `... ${att.filename} ...` for every attachment
renderAttachments(s, attachments) ==
    IF attachments = << >> THEN [ s EXCEPT !.attachmentsList.shown = FALSE ]
    ELSE [ s EXCEPT !.attachmentsList = [ shown |-> TRUE, files |-> attachments ] ]

\* viewMessage from the fetch on: r is the response.
viewMessageDone(s, r) ==
    LET s1 == [ s EXCEPT !.detailReqs = @ - 1 ]
        s2 == IF r.kind = "ok" /\ ~s.viewContainers THEN s1
              ELSE IF r.kind = "ok"
              THEN LET a == [ s1 EXCEPT !.viewListHidden = TRUE ]
                       b == IF r.html # << >> THEN renderEmailInIframe(a, r.html)
                            ELSE renderTextBody(a, IF r.text = << >> THEN << Tok("chr", "(") >>
                                                   ELSE r.text)
                   IN  renderAttachments(processLinks(b), r.attachments)
              ELSE IF r.kind = "throws" THEN [ s1 EXCEPT !.ev.toast = "error" ]
              ELSE s1
    IN  [ s2 EXCEPT !.isLoadingMessage = FALSE ]

\* ------------------------------------------------------------ visibility
\* The visibilitychange listener, run after document.hidden has flipped.
visibilityChange(s) ==
    IF s.hidden
    THEN LET s1 == IF s.sessionSecondsRemaining > 0
                      /\ s.sessionSecondsRemaining < LastChanceWindow
                   THEN refreshMessages(s) ELSE s
         IN  startBackgroundPolling(s1)
    ELSE LET s1 == stopBackgroundPolling(s)
             s2 == updateTabTitle(
                       IF s1.notificationInterval # "null"
                       THEN [ clearInterval(s1, "notificationInterval", "blink")
                                EXCEPT !.title = OriginalTitle ]
                       ELSE s1)
         IN  IF ~s2.viewListHidden /\ ~s2.isResetting /\ s2.sessionSecondsRemaining > 0
             THEN refreshMessages(IF s2.pollingInterval = "null"
                                  THEN startPolling(s2) ELSE s2)
             ELSE s2

\* The callback of the session countdown interval.
countdownTick(s) ==
    LET s1 == [ s EXCEPT !.sessionSecondsRemaining = @ - 1 ]
    IN  IF s1.sessionSecondsRemaining <= 0
        THEN clearInterval(s1, "sessionTimer", "countdown")
        ELSE s1

\* The callback of the 5-minute background interval.
backgroundTick(s) ==
    IF s.sessionSecondsRemaining > BackgroundMinRemaining
    THEN refreshMessages(s) ELSE s

\* ================================================================ actions
Init ==
    /\ currentEmail = NoEmail
    /\ emailDisplay = NoEmail
    /\ skeletonShown = TRUE
    /\ hidden \in BOOLEAN
    /\ viewListHidden = FALSE
    /\ viewContainers \in BOOLEAN
    /\ isLoadingMessage = FALSE
    /\ detailReqs = 0
    /\ pollingInterval = "null"
    /\ backgroundPollingTimer = "null"
    /\ sessionTimer = "null"
    /\ sessionSecondsRemaining = 0
    /\ isRefreshing = FALSE
    /\ isResetting = FALSE
    /\ pollingLed = FALSE
    /\ polls = << >>
    /\ initLoading = TRUE
    /\ resets = << >>
    /\ cooldowns = 0
    /\ retryCount = 0
    /\ retryTimers = 0
    /\ lastMessageCount = 0
    /\ emailList = 0
    /\ notificationInterval = "null"
    /\ isAlert = FALSE
    /\ stopAlerts = << >>
    /\ title = OriginalTitle
    /\ unreadCount = 0
    /\ intervals = [ poll |-> 0, background |-> 0, countdown |-> 0, blink |-> 0 ]
    /\ currentMessageId = 0
    /\ msgCorpo = EmptyBody
    /\ attachmentsList = [ shown |-> FALSE, files |-> << >> ]
    /\ linkTimers = 0
    /\ linkModal = [ open |-> FALSE, url |-> "", warning |-> FALSE ]
    /\ navigations = { }
    /\ downloadModal = [ open |-> FALSE, onclick |-> NoDownload ]
    /\ downloads = << >>
    /\ consecFails = 0
    /\ ev = NoEv("init")

Do(s) == WithinBounds(s) /\ Commit(s)

\* init() resumed: the first loadEmail settles, then startPolling().
InitLoadResponse(E) ==
    /\ initLoading
    /\ \E r \in E :
         Do(startPolling(loadEmailDone(
               [ Begin("InitLoadResponse") EXCEPT !.initLoading = FALSE ], r)))

PollTick ==
    /\ intervals.poll > 0
    /\ Do(refreshMessages(Begin("PollTick")))

BackgroundTick ==
    /\ intervals.background > 0
    /\ Do(backgroundTick(Begin("BackgroundTick")))

RetryTimeout ==
    /\ retryTimers > 0
    /\ Do(refreshMessages([ Begin("RetryTimeout") EXCEPT !.retryTimers = @ - 1 ]))

CountdownTick ==
    /\ intervals.countdown > 0
    /\ Do(countdownTick(Begin("CountdownTick")))

VisibilityChange ==
    /\ hidden \in BOOLEAN
    /\ Do(visibilityChange([ Begin("VisibilityChange") EXCEPT !.hidden = ~@ ]))

RefreshResponse(M) ==
    \E i \in 1..Len(polls) :
        /\ polls[i].stage = "fetch"
        /\ \E r \in M : Do(refreshDone(Begin("RefreshResponse"), i, r))

RecoverResponse(E) ==
    \E i \in 1..Len(polls) :
        /\ polls[i].stage = "recover"
        /\ \E r \in E : Do(recoverDone(Begin("RecoverResponse"), i, r))

ConfirmResetEmail ==
    /\ isResetting \in BOOLEAN
    /\ Do(confirmResetEmail(Begin("ConfirmResetEmail")))

SaveEditModal ==
    /\ isResetting \in BOOLEAN
    /\ \E typed \in Typed : Do(saveEditModal(Begin("SaveEditModal"), typed))

ResetResponse(E) ==
    \E i \in 1..Len(resets) : \E r \in E :
        LET s == [ Begin("ResetResponse") EXCEPT !.resets = RemoveAt(@, i) ]
        IN  IF resets[i] = "reset"
            THEN Do(confirmResetDone(s, r))
            ELSE Do(saveEditDone(s, r))

CooldownTimeout ==
    /\ cooldowns > 0
    /\ Do(cooldownDone([ Begin("CooldownTimeout") EXCEPT !.cooldowns = @ - 1 ]))

ViewMessage ==
    /\ ~viewListHidden
    /\ emailList > 0
    /\ Do(viewMessage(Begin("ViewMessage")))

DetailResponse(D) ==
    /\ detailReqs > 0
    /\ \E r \in D : Do(viewMessageDone(Begin("DetailResponse"), r))

\* the 100 ms timeout renderEmailInIframe set
LinkTimeout ==
    /\ linkTimers > 0
    /\ Do(processLinks([ Begin("LinkTimeout") EXCEPT !.linkTimers = @ - 1 ]))

\* the user clicks a link of a plain-text body
ClickBodyLink ==
    /\ viewListHidden
    /\ \E href \in Anchors(msgCorpo.markup) :
         Do(clickAnchor(Begin("ClickBodyLink"), href))

\* the user clicks a link inside the iframe of an HTML body
IframeLinkClick ==
    /\ viewListHidden
    /\ msgCorpo.kind = "iframe"
    /\ \E href \in Hrefs, text \in LinkTexts :
         Do(iframeClick(Begin("IframeLinkClick"), href, text))

ConfirmLink ==
    /\ linkModal.open
    /\ Do(confirmLink(Begin("ConfirmLink")))

CloseLinkModal ==
    /\ linkModal.open
    /\ Do([ Begin("CloseLinkModal") EXCEPT !.linkModal.open = FALSE ])

\* the Baixar button renderAttachments wrote for attachment i
ClickAttachment ==
    /\ viewListHidden
    /\ attachmentsList.shown
    /\ \E i \in 1..Len(attachmentsList.files) :
         Do(showDownloadModal(Begin("ClickAttachment"),
                [ type |-> "attachment", messageId |-> currentMessageId,
                  attachmentId |-> i, filename |-> attachmentsList.files[i] ]))

\* window.downloadMessage()
WindowDownloadMessage ==
    /\ currentMessageId \in 0..1
    /\ Do(downloadMessage(Begin("WindowDownloadMessage")))

\* window.downloadAttachment(mId, aId, fn)
WindowDownloadAttachment ==
    /\ currentMessageId \in 0..1
    /\ \E mId \in 0..1, aId \in 0..1, fn \in Untrusted :
         Do(downloadAttachment(Begin("WindowDownloadAttachment"), mId, aId, fn))

ConfirmDownload ==
    /\ downloadModal.open
    /\ Do(confirmDownload(Begin("ConfirmDownload")))

CloseDownloadModal ==
    /\ downloadModal.open
    /\ Do([ Begin("CloseDownloadModal") EXCEPT !.downloadModal.open = FALSE ])

DownloadResponse ==
    /\ downloads # << >>
    /\ \E i \in 1..Len(downloads), ok \in BOOLEAN :
         Do(downloadDone(Begin("DownloadResponse"), i, ok))

BackToList ==
    /\ viewListHidden
    /\ Do(backToList(Begin("BackToList")))

\* the window receives focus while a stopAlert listener is registered
WindowFocus ==
    /\ \E i \in 1..Len(stopAlerts) : stopAlerts[i].listening
    /\ Do(focusListeners(Begin("WindowFocus"), 1))

\* A 10 s stopAlert timeout fires.
AlertTimeout ==
    /\ stopAlerts # << >>
    /\ Do(alertTimeout(Begin("AlertTimeout")))

BlinkTick ==
    /\ intervals.blink > 0
    /\ Do(blinkTick(Begin("BlinkTick")))

\* The whole client against the whole environment.
Next ==
    \/ InitLoadResponse(EmailResponses)
    \/ PollTick
    \/ BackgroundTick
    \/ RetryTimeout
    \/ CountdownTick
    \/ VisibilityChange
    \/ RefreshResponse(MsgResponses)
    \/ RecoverResponse(EmailResponses)
    \/ ConfirmResetEmail
    \/ SaveEditModal
    \/ ResetResponse(EmailResponses)
    \/ CooldownTimeout
    \/ ViewMessage
    \/ DetailResponse(DetailOk({ << >> } \cup Untrusted, TextBodies,
                               { << >> } \cup { << f >> : f \in Untrusted })
                      \cup DetailFail)
    \/ BackToList
    \/ WindowFocus
    \/ AlertTimeout
    \/ BlinkTick
    \/ LinkTimeout
    \/ ClickBodyLink
    \/ IframeLinkClick
    \/ ConfirmLink
    \/ CloseLinkModal
    \/ ClickAttachment
    \/ WindowDownloadMessage
    \/ WindowDownloadAttachment
    \/ ConfirmDownload
    \/ CloseDownloadModal
    \/ DownloadResponse

Spec == Init /\ [][Next]_vars

\* ------------------------------------------------------------------ slices
\* Spec is too large to enumerate, so each property is checked on a slice of
\* it: the same actions against a narrower environment.  Every behaviour of
\* a slice is a behaviour of Spec.
OneEmail == { << "a" >> \o << "@" >> \o Domain }

\* Polling: every trigger of refreshMessages, the countdown across the
\* critical window, every kind of poll response over an empty mailbox.
PollEmails == EmailOk(OneEmail, { 0, 1, MaxExpires }) \cup EmailFail
PollMsgs == MsgThrows \cup MsgSuccess({ 0 }) \cup MsgFail({ 400, 403, 500 }, { FALSE })

NextPoll ==
    \/ InitLoadResponse(PollEmails)
    \/ PollTick
    \/ BackgroundTick
    \/ RetryTimeout
    \/ CountdownTick
    \/ VisibilityChange
    \/ RefreshResponse(PollMsgs)
    \/ RecoverResponse(PollEmails)

SpecPoll == Init /\ [][NextPoll]_vars

\* Polling with lists that cannot be rendered among the responses.

NextRetry ==
    \/ InitLoadResponse(PollEmails)
    \/ PollTick
    \/ BackgroundTick
    \/ RetryTimeout
    \/ CountdownTick
    \/ VisibilityChange
    \/ RefreshResponse(PollMsgs \cup MsgBadList({ MaxMsgs }))
    \/ RecoverResponse(PollEmails)

SpecRetry == Init /\ [][NextRetry]_vars

\* Session replacement: reset, rename, the message list and the detail view
\* over short sessions; polls succeed or report the session gone.
ResetEmails == EmailOk(ServerEmails, { 0, 1, ShortExpires }) \cup EmailFail

NextReset ==
    \/ InitLoadResponse(ResetEmails)
    \/ PollTick
    \/ CountdownTick
    \/ RefreshResponse(MsgSuccess(0..MaxMsgs) \cup MsgFail({ 400 }, BOOLEAN)
                       \cup MsgFail({ 500 }, { TRUE }) \cup MsgFail({ 403 }, { FALSE }))
    \/ RecoverResponse(ResetEmails)
    \/ ConfirmResetEmail
    \/ SaveEditModal
    \/ ResetResponse(ResetEmails)
    \/ CooldownTimeout
    \/ WindowFocus
    \/ AlertTimeout

SpecReset == Init /\ [][NextReset]_vars

\* Notification: the message list grows while the tab is shown or hidden,
\* inside and outside the critical window; every poll succeeds or is refused.
NotifyMsgs == MsgSuccess(0..MaxMsgs) \cup MsgFail({ 403 }, { FALSE })

NextNotify ==
    \/ InitLoadResponse(EmailOk(OneEmail, { 1, MaxExpires }))
    \/ PollTick
    \/ BackgroundTick
    \/ CountdownTick
    \/ VisibilityChange
    \/ RefreshResponse(NotifyMsgs)
    \/ WindowFocus
    \/ AlertTimeout

SpecNotify == Init /\ [][NextNotify]_vars

\* The title of the tab: the blink and what stops it, with the tab hidden
\* and shown, in a session that is inside the critical window throughout.

NextBlink ==
    \/ InitLoadResponse(EmailOk(OneEmail, { ShortExpires }))
    \/ PollTick
    \/ CountdownTick
    \/ VisibilityChange
    \/ RefreshResponse(NotifyMsgs)
    \/ WindowFocus
    \/ AlertTimeout
    \/ BlinkTick

SpecBlink == Init /\ [][NextBlink]_vars

\* Every timer of the client together: start and stop of polling, reset,
\* rename, visibility changes, notifications and session recovery, over a
\* short session.
TimerEmails == EmailOk(OneEmail, { ShortExpires })

NextTimers ==
    \/ InitLoadResponse(TimerEmails)
    \/ PollTick
    \/ BackgroundTick
    \/ CountdownTick
    \/ VisibilityChange
    \/ RefreshResponse(MsgSuccess(0..MaxMsgs) \cup MsgFail({ 400 }, { FALSE }))
    \/ RecoverResponse(TimerEmails)
    \/ ConfirmResetEmail
    \/ SaveEditModal
    \/ ResetResponse(TimerEmails)
    \/ CooldownTimeout
    \/ WindowFocus
    \/ AlertTimeout

SpecTimers == Init /\ [][NextTimers]_vars

\* one long session; every poll returns the full list
ViewEmails == EmailOk(OneEmail, { MaxExpires })
ViewMsgs == MsgSuccess({ MaxMsgs })

\* Session replacement while the tab is hidden and shown again.
HideEmails == EmailOk(OneEmail, { ShortExpires }) \cup EmailFail

NextResetHide ==
    \/ InitLoadResponse(HideEmails)
    \/ PollTick
    \/ BackgroundTick
    \/ CountdownTick
    \/ VisibilityChange
    \/ RefreshResponse(ViewMsgs)
    \/ ConfirmResetEmail
    \/ SaveEditModal
    \/ ResetResponse(HideEmails)
    \/ CooldownTimeout

SpecResetHide == Init /\ [][NextResetHide]_vars

\* Reading and session replacement together: polls that find a message
\* open or a reset underway.
ReadEmails == EmailOk(OneEmail, { ShortExpires }) \cup EmailFail

NextRead ==
    \/ InitLoadResponse(ReadEmails)
    \/ PollTick
    \/ CountdownTick
    \/ RefreshResponse(MsgSuccess(0..MaxMsgs))
    \/ ViewMessage
    \/ DetailResponse(DetailOk({ << >> }, { Plain }, { << >> }) \cup DetailFail)
    \/ BackToList
    \/ ConfirmResetEmail
    \/ SaveEditModal
    \/ ResetResponse(ReadEmails)
    \/ CooldownTimeout

SpecRead == Init /\ [][NextRead]_vars

\* Reading: one session, a list of one message, the detail view with the
\* links of a plain-text or HTML body.
NextLinks ==
    \/ InitLoadResponse(ViewEmails)
    \/ PollTick
    \/ RefreshResponse(ViewMsgs)
    \/ ViewMessage
    \/ DetailResponse(DetailOk({ << >>, Plain },
                               { Plain } \cup { << Tok("url", u) >> : u \in TextUrls },
                               { << >> }) \cup DetailFail)
    \/ BackToList
    \/ LinkTimeout
    \/ ClickBodyLink
    \/ IframeLinkClick
    \/ ConfirmLink
    \/ CloseLinkModal

SpecLinks == Init /\ [][NextLinks]_vars

\* Reading: the detail view of plain-text messages with and without an
\* attachment, the download modal and the global download handlers.
NextFiles ==
    \/ InitLoadResponse(ViewEmails)
    \/ PollTick
    \/ RefreshResponse(ViewMsgs)
    \/ ViewMessage
    \/ DetailResponse(DetailOk({ << >> }, TextBodies,
                               { << >> } \cup { << f >> : f \in Untrusted })
                      \cup DetailFail)
    \/ BackToList
    \/ ClickAttachment
    \/ WindowDownloadMessage
    \/ WindowDownloadAttachment
    \/ ConfirmDownload
    \/ CloseDownloadModal
    \/ DownloadResponse

SpecFiles == Init /\ [][NextFiles]_vars

\* ================================================================= claims
\* Every variable of the program (all but the history variable ev).
progVars == << currentEmail, emailDisplay, skeletonShown, hidden, viewListHidden,
               viewContainers,
               isLoadingMessage, detailReqs, pollingInterval, backgroundPollingTimer,
               sessionTimer, sessionSecondsRemaining, isRefreshing, isResetting,
               pollingLed, polls, initLoading, resets, cooldowns, retryCount,
               retryTimers, lastMessageCount, emailList, notificationInterval,
               isAlert, stopAlerts, title, unreadCount, intervals, currentMessageId,
           msgCorpo,
               attachmentsList, linkTimers, linkModal, navigations,
               downloadModal, downloads, consecFails >>

\* What a poll writes: the callers of refreshMessages write none of these.
refreshVars == << isRefreshing, pollingLed, polls, pollingInterval, retryCount,
                  lastMessageCount, emailList, notificationInterval >>

\* GET /api/messages/ requests awaiting their response
FetchesInFlight == Cardinality({ i \in 1..Len(polls) : polls[i].stage = "fetch" })

\* C1: at most one GET /api/messages/ issued by refreshMessages is in flight
\* at any time, and a call to refreshMessages made while isRefreshing is true
\* returns without issuing a request (and without touching the polls).
C1_OnePollInFlight ==
    /\ [](FetchesInFlight <= 1)
    /\ [][(ev'.called /\ isRefreshing) => (~ev'.issued /\ polls' = polls)]_vars

\* C1 witness: a retry timeout fired while a poll was in flight, with every
\* other guard open, and issued nothing.
C1_Witness ==
    /\ ev.op = "RetryTimeout" /\ ev.called /\ ~ev.issued
    /\ isRefreshing /\ FetchesInFlight = 1
    /\ ~hidden /\ ~isResetting /\ ~viewListHidden /\ sessionSecondsRemaining > 0

\* The delay the claim gives for the k-th consecutive failure, in seconds.
ClaimedDelay(k) ==
    CASE k = 1 -> 2 [] k = 2 -> 4 [] k = 3 -> 8 [] k = 4 -> 16 [] k = 5 -> 32
      [] OTHER -> 0

\* C2: the k-th consecutive failed poll (status >= 500 or an exception, no
\* successful poll in between), k = 1..5, schedules exactly one retry after
\* 2^k seconds; the 6th schedules none and resets retryCount to 0.
C2_BackoffSequence ==
    [][ev'.failed =>
         /\ consecFails' \in 1..5 =>
              /\ ev'.retryDelay = ClaimedDelay(consecFails')
              /\ retryTimers' = retryTimers + 1
         /\ consecFails' = 6 =>
              /\ ev'.retryDelay = 0
              /\ retryTimers' = retryTimers
              /\ retryCount' = 0]_vars

\* C2 witness: the sixth consecutive failure has been handled.
C2_Witness == ev.failed /\ consecFails = 6 /\ retryCount = 0 /\ ev.retryDelay = 0

C7_NoPollAfterExpiry ==
    [][/\ ev'.issued => sessionSecondsRemaining' > 0
       /\ (sessionSecondsRemaining <= 0 /\ sessionSecondsRemaining' > 0) =>
             ev'.op \in { "InitLoadResponse", "RecoverResponse", "ResetResponse" }]_vars

\* C7 witness: a poll tick on a visible, idle list after expiry sent nothing.
C7_Witness ==
    /\ ev.op = "PollTick" /\ ev.called /\ ~ev.issued
    /\ sessionSecondsRemaining = 0 /\ currentEmail # NoEmail
    /\ ~hidden /\ ~isRefreshing /\ ~isResetting /\ ~viewListHidden

\* POSTs to /api/email/ awaiting their response
ResetsInFlight == Len(resets)

\* C4: while isResetting is true (the 2 s cooldown included) a further call
\* to confirmResetEmail or saveEditModal issues no POST and changes nothing,
\* so at most one session-replacement request is in flight.
C4_OneResetAtATime ==
    /\ [](ResetsInFlight <= 1)
    /\ [][(isResetting /\ ev'.op \in { "ConfirmResetEmail", "SaveEditModal" }) =>
             UNCHANGED progVars]_vars

\* C4 witness: confirmResetEmail was called during the cooldown of a reset.
C4_Witness ==
    /\ ev.op = "ConfirmResetEmail" /\ isResetting /\ cooldowns = 1
    /\ resets = << >>

\* C5 (as claimed): right after a successful reset or rename, lastMessageCount
\* is 0 and the rendered list is empty.
C5_ResetClearsCount ==
    (ev.op = "ResetResponse" /\ ev.toast = "success") =>
        (lastMessageCount = 0 /\ emailList = 0)

\* C6 (as claimed): sessionSecondsRemaining changes only by taking a
\* server-issued expires_in >= 0 when a session response is handled, or by a
\* countdown tick that takes exactly 1 off and never leaves it below 0.
C6_CountdownNeverNegative ==
    [][\/ sessionSecondsRemaining' = sessionSecondsRemaining
       \/ /\ ev'.op \in { "InitLoadResponse", "RecoverResponse", "ResetResponse" }
          /\ sessionSecondsRemaining' \in ExpiresChoices
       \/ /\ ev'.op = "CountdownTick"
          /\ sessionSecondsRemaining' = sessionSecondsRemaining - 1
          /\ sessionSecondsRemaining' >= 0]_vars

\* loadEmail calls awaited by a poll (silent session recovery)
RecoveriesInFlight == Cardinality({ i \in 1..Len(polls) : polls[i].stage = "recover" })

\* The response r ends the poll at index i of polls in this step.
PollEndsWith(i, r) ==
    /\ i \in 1..Len(polls) /\ polls[i].stage = "fetch"
    /\ Do(refreshDone(Begin("RefreshResponse"), i, r))

\* The responses the claim speaks of: parsed, not successful, status 400 or
\* the session-not-found error.
ClaimedGone(r) == ~r.throws /\ ~r.success /\ (r.status = 400 \/ r.sessErr)

\* C9: a poll response that is not successful and has status 400 or the
\* session-not-found error starts exactly one loadEmail if isResetting is
\* false, none if a reset is underway, and never schedules a backoff retry.
C9_SilentRecovery ==
    [][ev'.op = "RefreshResponse" =>
         \A i \in 1..Len(polls) : \A r \in MsgResponses :
             (ClaimedGone(r) /\ PollEndsWith(i, r)) =>
                 /\ RecoveriesInFlight' =
                        RecoveriesInFlight + (IF isResetting THEN 0 ELSE 1)
                 /\ ~isResetting => (skeletonShown' /\ isRefreshing')
                 /\ ev'.retryDelay = 0 /\ ~ev'.failed
                 /\ retryTimers' = retryTimers /\ retryCount' = retryCount]_vars

\* C9 witness: a session-not-found response arrived during a reset and no
\* recovery was started.
C9_Witness ==
    /\ ev.op = "RefreshResponse" /\ ev.gone /\ isResetting
    /\ RecoveriesInFlight = 0 /\ ~isRefreshing

\* The typed texts the claim says saveEditModal rejects.
ClaimedRejected(typed, current) ==
    LET u0 == Trim(typed)
        u1 == IF Includes(u0, "@") THEN BeforeAt(u0) ELSE u0
        u2 == Normalize(u1)
    IN  \/ u0 = << >>
        \/ u1 = << >>
        \/ Head(u2) = "." \/ u2[Len(u2)] = "."
        \/ \E k \in 1..Len(u2) : u2[k] \notin ValidChars
        \/ u2 \o << "@" >> \o Domain = current

\* C10: when saveEditModal rejects its input no request is made and
\* isResetting, the polling timers, currentEmail and the session countdown
\* stay as they were: a call that changes any of them was given a text that
\* is none of the rejected ones.
C10_RejectedEditChangesNothing ==
    [][(/\ ev'.op = "SaveEditModal"
        /\ ~UNCHANGED << resets, polls, initLoading, detailReqs, isResetting,
                         pollingInterval, backgroundPollingTimer, currentEmail,
                         sessionTimer, sessionSecondsRemaining >>) =>
           \A typed \in Typed :
               Do(saveEditModal(Begin("SaveEditModal"), typed)) =>
                   ~ClaimedRejected(typed, currentEmail)]_vars

\* C10 witness: the address already in use was typed while polling was live;
\* the edit was turned down with the info toast.
C10_Witness ==
    /\ ev.op = "SaveEditModal" /\ ev.toast = "info"
    /\ currentEmail # NoEmail /\ ~isResetting /\ pollingInterval = "live"
    /\ resets = << >>

\* C8: a poll starts the title blink only when its response is successful
\* with more messages than lastMessageCount, the document is hidden when the
\* response is handled, and the poll was called with 1..25 seconds left.
C8_NotifyOnlyHiddenAndCritical ==
    [][/\ ev'.issued =>
            polls'[Len(polls')].crit = (sessionSecondsRemaining' \in 1..25)
       /\ ev'.notified =>
            /\ ev'.op = "RefreshResponse"
            /\ hidden
            /\ \E i \in 1..Len(polls) : \E r \in MsgResponses :
                 /\ PollEndsWith(i, r)
                 /\ ~r.throws /\ r.success /\ r.n > lastMessageCount
                 /\ polls[i].crit]_vars

\* C8 witness: a hidden tab in the critical window saw the list grow and
\* started blinking.
C8_Witness ==
    /\ ev.op = "RefreshResponse" /\ ev.notified /\ hidden
    /\ notificationInterval = "live" /\ emailList > 0

\* C11: a click on a link of a plain-text body, and a link-click message the
\* iframe posts, opens the confirmation modal with that link's href; the
\* hidden-URL warning shows exactly when detectHiddenUrl finds a mismatch
\* for the link; the click itself navigates nowhere, and the window only
\* goes to the URL of the open modal when the user confirms.
C11_LinkClicksIntercepted ==
    [][/\ ev'.op = "ClickBodyLink" => ev'.link.where = "body"
       /\ ev'.link.where # "none" =>
            /\ linkModal'.open
            /\ linkModal'.url = ev'.link.href
            /\ linkModal'.warning =
                 detectHiddenUrl(IF ev'.link.text = "" THEN ev'.link.href
                                 ELSE ev'.link.text, ev'.link.href)
            /\ navigations' = navigations
       /\ navigations' # navigations =>
            /\ ev'.op = "ConfirmLink" /\ linkModal.open
            /\ navigations' = navigations \cup { linkModal.url }]_vars

\* C11 witness: a link of an HTML body whose text names another domain was
\* clicked; the modal is open on its href with the warning, nothing visited.
C11_Witness ==
    /\ ev.op = "IframeLinkClick" /\ ev.link.where = "iframe"
    /\ ev.link.href = "https://a.com/" /\ ev.link.text = "b.com"
    /\ linkModal.open /\ linkModal.warning /\ linkModal.url = "https://a.com/"
    /\ navigations = { }

\* C12 (as claimed): a download request is only ever sent by the confirm
\* button of the open download modal, and it is for the file that modal was
\* opened for.
C12_DownloadsConfirmed ==
    [][Len(downloads') > Len(downloads) =>
         /\ ev'.op = "ConfirmDownload"
         /\ downloadModal.open
         /\ downloads'[Len(downloads')].type = downloadModal.onclick.type
         /\ downloadModal.onclick.type = "attachment" =>
              /\ downloads'[Len(downloads')].messageId = downloadModal.onclick.messageId
              /\ downloads'[Len(downloads')].attachmentId =
                     downloadModal.onclick.attachmentId]_vars

\* markup that holds active content of the sender's making
HasActive(markup) == \E i \in 1..Len(markup) : markup[i].k = "lt"

\* C13 (as claimed): no value of a message reaches main-document markup
\* unescaped and unsanitized (list rows, plain-text body, attachment file
\* names), and an HTML body is only ever inside the sandboxed iframe.
C13_NoRawContentInMainDocument ==
    /\ \A u \in Untrusted : ~HasActive(rowMarkup(u))
    /\ ~HasActive(msgCorpo.markup)
    /\ \A i \in 1..Len(attachmentsList.files) : ~HasActive(attachmentsList.files[i])
    /\ msgCorpo.kind = "iframe" => (msgCorpo.sandboxed /\ msgCorpo.markup = << >>)
    /\ msgCorpo.kind # "iframe" => msgCorpo.srcdoc = << >>

\* C14 (as claimed): with the tab hidden and no poll, reset or reading in
\* the way, a firing of the 5-minute background timer issues a messages
\* request exactly when more than 10 seconds of session remain.
C14_BackgroundTimerPolls ==
    [][(/\ ev'.op = "BackgroundTick"
        /\ hidden /\ ~isRefreshing /\ ~isResetting /\ ~viewListHidden) =>
           (ev'.issued <=> sessionSecondsRemaining > 10)]_vars

\* The response r ends the reset or rename at index i of resets in this step.
ResetEndsWith(i, r) ==
    /\ i \in 1..Len(resets)
    /\ LET s == [ Begin("ResetResponse") EXCEPT !.resets = RemoveAt(@, i) ]
       IN  IF resets[i] = "reset" THEN Do(confirmResetDone(s, r))
           ELSE Do(saveEditDone(s, r))

\* C15: when the POST of a reset or rename fails (error status, success =
\* false or a connection error), handling the failure leaves currentEmail
\* and sessionSecondsRemaining alone, shows an error toast, clears
\* isResetting and, if session time remains, leaves the poll interval live.
C15_FailedResetRestores ==
    [][ev'.op = "ResetResponse" =>
         \A i \in 1..Len(resets) : \A r \in EmailResponses :
             (~r.ok /\ ResetEndsWith(i, r)) =>
                 /\ currentEmail' = currentEmail
                 /\ sessionSecondsRemaining' = sessionSecondsRemaining
                 /\ ev'.toast = "error"
                 /\ ~isResetting'
                 /\ sessionSecondsRemaining > 0 => pollingInterval' = "live"]_vars

\* C15 witness: a reset failed while the session was running; the address
\* is still there, isResetting is clear and the poll interval is live.
C15_Witness ==
    /\ ev.op = "ResetResponse" /\ ev.toast = "error"
    /\ currentEmail # NoEmail /\ sessionSecondsRemaining > 0
    /\ ~isResetting /\ pollingInterval = "live" /\ resets = << >>

\* C16 (as claimed): while isResetting is set neither the foreground poll
\* interval nor the 5-minute background timer is live.
C16_NoTimersDuringReset ==
    isResetting => (pollingInterval # "live" /\ backgroundPollingTimer # "live")

\* C17 (as claimed): once the countdown has run out, sessionSecondsRemaining
\* becomes positive again only when a reset or rename of the user succeeds.
C17_ExpiredUntilReset ==
    [][(/\ sessionTimer = "cleared" /\ sessionSecondsRemaining <= 0
        /\ sessionSecondsRemaining' > 0) =>
           (ev'.op = "ResetResponse" /\ ev'.toast = "success")]_vars

\* C18 (as claimed): once the countdown has run out the poll loop is
\* stopped: a firing of the poll interval in that state, tab hidden or a
\* message open included, does not leave the interval running.
C18_PollLoopStopsAtZero ==
    [][(/\ ev'.op = "PollTick"
        /\ sessionTimer = "cleared" /\ sessionSecondsRemaining <= 0
        /\ sessionSecondsRemaining' <= 0) =>
           pollingInterval' # "live"]_vars

\* C19 (as claimed): after initialisation, whenever session time remains
\* and no reset is underway, the foreground poll interval is live.
C19_PollingRestored ==
    (~initLoading /\ sessionSecondsRemaining > 0 /\ ~isResetting) =>
        pollingInterval = "live"

\* C20: refreshMessages sends no messages request while isResetting is set
\* or the list view is hidden; a poll tick in those states leaves
\* isRefreshing, retryCount, lastMessageCount and the rendered list alone.
C20_NoPollWhileResettingOrReading ==
    [][/\ ev'.issued => (~isResetting /\ ~viewListHidden)
       /\ (ev'.called /\ (isResetting \/ viewListHidden)) =>
            /\ ~ev'.issued /\ polls' = polls
            /\ ev'.op = "PollTick" =>
                 UNCHANGED << isRefreshing, retryCount, lastMessageCount,
                              emailList >>]_vars

\* C20 witness: the poll interval fired while a message was open, with
\* session time left and no poll in flight, and sent nothing.
C20_Witness ==
    /\ ev.op = "PollTick" /\ ev.called /\ ~ev.issued
    /\ viewListHidden /\ ~isRefreshing /\ ~isResetting /\ ~hidden
    /\ sessionSecondsRemaining > 0 /\ polls = << >>

\* C21: at most one detail fetch is in flight; viewMessage called while
\* isLoadingMessage is set fetches nothing and changes nothing; and after
\* every outcome of the fetch (success, success = false, containers missing,
\* exception) isLoadingMessage is false again.
C21_OneDetailFetch ==
    /\ [](detailReqs <= 1)
    /\ [][/\ (ev'.op = "ViewMessage" /\ isLoadingMessage) =>
               (ev'.ignored /\ UNCHANGED progVars)
          /\ ev'.op = "DetailResponse" => ~isLoadingMessage']_vars

\* C21 witness: a second row was clicked while a detail fetch was in flight
\* and the click was ignored.
C21_Witness ==
    /\ ev.op = "ViewMessage" /\ ev.ignored
    /\ isLoadingMessage /\ detailReqs = 1 /\ ~viewListHidden

\* C22 (as claimed): a poll response handled while isResetting is set does
\* not re-render the message list, does not change lastMessageCount, starts
\* no notification and starts no session recovery.
C22_LateResponseGated ==
    [][(ev'.op = "RefreshResponse" /\ isResetting) =>
         /\ UNCHANGED << emailList, lastMessageCount >>
         /\ ~ev'.notified
         /\ RecoveriesInFlight' = RecoveriesInFlight]_vars

C24_HiddenUrlVerdict ==
    [][ev'.link.where = "iframe" =>
         LET href == ev'.link.href
             text == IF ev'.link.text = "" THEN href ELSE ev'.link.text
             d == ToLowerCase(DomainIn(text))
             host == ToLowerCase(Hostname(href))
         IN  /\ ~HasDotOrSlash(text) => ~linkModal'.warning
             /\ (UrlParses(href) /\ d # "") =>
                  (linkModal'.warning <=> (host # d /\ ~EndsWithDot(host, d)))]_vars

\* C24 witness: a link to a subdomain whose text names the parent domain in
\* upper case was clicked and is not flagged.
C24_Witness ==
    /\ ev.link.where = "iframe" /\ ev.link.href = "https://x.a.com/"
    /\ ev.link.text = "A.COM" /\ linkModal.open /\ ~linkModal.warning

\* C25: a running blink interval always has the 10 s timeout of the latest
\* notifyNewEmail call pending and its focus listener registered, so it is
\* not running once that timeout has fired; it is not running after the
\* window receives focus nor after the tab becomes visible, overlapping
\* notifications included.
C25_AlertAlwaysCancelled ==
    /\ [](notificationInterval = "live" =>
            (stopAlerts # << >> /\ stopAlerts[Len(stopAlerts)].listening))
    /\ [][(\/ ev'.op = "WindowFocus"
           \/ ev'.op = "VisibilityChange" /\ ~hidden'
           \/ ev'.op = "AlertTimeout" /\ stopAlerts' = << >>) =>
              notificationInterval' # "live"]_vars

\* C25 witness: two notifications overlapped; the timeout of the first has
\* fired and stopped the blink of the second, whose own timeout is pending.
C25_Witness ==
    /\ ev.op = "AlertTimeout" /\ Len(stopAlerts) = 1 /\ stopAlerts[1].listening
    /\ notificationInterval = "cleared" /\ hidden

\* C26: isRefreshing is set only while a poll is awaiting its fetch or its
\* nested loadEmail; when a poll completes, on any response (success,
\* success = false, status 400 with the recovery, another 4xx, status >= 500,
\* an exception, a list that cannot be rendered), isRefreshing is false, and
\* the next poll tick that no other guard stops sends a request.
C26_RefreshAlwaysReleased ==
    /\ [](polls = << >> => ~isRefreshing)
    /\ [][/\ (ev'.op \in { "RefreshResponse", "RecoverResponse" }
              /\ Len(polls') < Len(polls)) => ~isRefreshing'
          /\ (ev'.op = "PollTick" /\ polls = << >> /\ ~hidden /\ ~isResetting
              /\ ~viewListHidden /\ sessionSecondsRemaining > 0) => ev'.issued]_vars

\* C26 witness: a poll that found the session gone has come back from its
\* nested loadEmail and released isRefreshing.
C26_Witness ==
    /\ ev.op = "RecoverResponse" /\ polls = << >> /\ ~isRefreshing
    /\ currentEmail # NoEmail /\ sessionSecondsRemaining > 0

\* C27 (as claimed): during the cooldown of a successful reset, the response
\* of a loadEmail that was started before the reset (the initial one, or a
\* silent recovery) leaves currentEmail and the countdown as the reset
\* response set them.
C27_ResetResultKept ==
    [][(/\ ev'.op \in { "InitLoadResponse", "RecoverResponse" }
        /\ isResetting /\ cooldowns > 0 /\ resets = << >>) =>
           /\ currentEmail' = currentEmail
           /\ sessionSecondsRemaining' = sessionSecondsRemaining
           /\ sessionTimer' = sessionTimer]_vars

\* C28 (as claimed): whenever no reset, rename or loadEmail is in progress
\* and currentEmail is set, emailDisplay shows currentEmail and the skeleton
\* is hidden.
C28_DisplayShowsCurrentEmail ==
    (/\ resets = << >> /\ ~isResetting /\ ~initLoading /\ RecoveriesInFlight = 0
     /\ currentEmail # NoEmail) =>
        (emailDisplay = currentEmail /\ ~skeletonShown)

\* C29: in every reachable state at most one foreground poll interval, one
\* background-poll interval, one session-countdown interval and one
\* title-blink interval is running, and a running one is the one its handle
\* names.
C29_NoTimerLeak ==
    /\ intervals.poll = (IF pollingInterval = "live" THEN 1 ELSE 0)
    /\ intervals.background = (IF backgroundPollingTimer = "live" THEN 1 ELSE 0)
    /\ intervals.countdown = (IF sessionTimer = "live" THEN 1 ELSE 0)
    /\ intervals.blink = (IF notificationInterval = "live" THEN 1 ELSE 0)

\* C29 witness: in a hidden tab all four intervals run at once, after a
\* second notification has replaced the blink of the first.
C29_Witness ==
    /\ intervals = [ poll |-> 1, background |-> 1, countdown |-> 1, blink |-> 1 ]
    /\ hidden /\ Len(stopAlerts) = 2 /\ ev.notified

\* C30 (as claimed): whenever the tab is visible and no blink interval is
\* running, document.title is the original title of the page.
C30_TitleRestored ==
    (~hidden /\ notificationInterval # "live") => title = OriginalTitle

====
